---- MODULE Spec2Model ----
(***************************************************************************)
(* The browser client of mindbot-vr: src/static/app.js (variant "static")  *)
(* and src/backend/static/app.js (variant "backend").                      *)
(*                                                                         *)
(* The client is single-threaded and event-loop driven.  Every action of   *)
(* this module is one run of an event handler or of the code between two   *)
(* awaits of an async function: it runs to completion before the next one  *)
(* starts.  Requests in flight, timers and pending continuations are the   *)
(* elements of the set tasks.                                              *)
(***************************************************************************)
EXTENDS Integers, Sequences, FiniteSets, TLC

(***************************************************************************)
(* Program constants.                                                      *)
(***************************************************************************)
\* const maxPoints = 60 (src/static/app.js) and 30 (src/backend/static/app.js)
MaxPointsStatic == 60

MaxPointsBackend == 30

\* if (now - lastBeepAt < 1200) return;
BeepGapMs == 1200

\* setInterval(..., 1000) and setInterval(..., 2000)
PollMsStatic == 1000

PollMsBackend == 2000

\* vitals.pulse_bpm > 110 and vitals.temperature_c > 38
PulseHighAbove == 110

FeverAbove == 38

(***************************************************************************)
(* Bounds of the model.                                                    *)
(***************************************************************************)
\* pushPulse calls of the buffer specification (more than either capacity)
MaxPushes == 62

\* Date.now() when the page loads, in ms since local midnight (00:00:58)
StartTime == 58000

\* how many steps the clock takes
MaxClock == 2

\* interval polls, chat submissions and SOS clicks, all together
MaxOps == 2

MaxPollOps == 2

MaxCueOps == 2

MaxSnapOps == 2

MaxChatOps == 2

MaxSosOps == 2

MaxSosLiveOps == 1

MaxEvalOps == 2

MaxAlertOps == 2

MaxAlertClock == 1

MaxAudioOps == 2

MaxAudioClock == 2

MaxTypeOps == 2

MaxTypeClock == 1

\* animation frames fall on EaseSteps equal steps of the duration
EaseSteps == 6

\* animateNumber calls on the field
MaxAnimCalls == 2

\* frame steps the clock advances
MaxAnimTicks == 12

(***************************************************************************)
(* Values.                                                                 *)
(***************************************************************************)
\* A JSON field or DOM attribute that may be missing: <<>> or <<value>>.
None == <<>>

Some(x) == <<x>>

\* Session identifiers the backend issues.
Ids == {"s1", "s2"}

\* JavaScript's undefined, as the value of sessionId after
\* "sessionId = data.session_id" on a response without that field.
Undefined == "<undefined>"

\* localStorage.getItem of a key that was never set (null).
NoItem == "<null>"

Variants == {"static", "backend"}

MaxPoints(v) == IF v = "static" THEN MaxPointsStatic ELSE MaxPointsBackend

\* The clock is observed once per poll interval of src/static/app.js.
TimeStep == PollMsStatic

PollMs(v) == IF v = "static" THEN PollMsStatic ELSE PollMsBackend

\* Vitals snapshots the backend may report.
VitalsSet ==
  { [pulse_bpm |-> 125, temperature_c |-> 37, oxygen_percent |-> 97, air_quality_ppm |-> 40],
    [pulse_bpm |-> 80, temperature_c |-> 39, oxygen_percent |-> 93, air_quality_ppm |-> 55] }

\* Risk assessments the backend may report (data.risk), None when absent.
Risk(level, score) == [risk_level |-> level, risk_score |-> score]

RiskSet == { Risk("Low", 10), Risk("Medium", 42), Risk("Critical", 90) }

\* The fixed fallback coordinate (center) and a position the device reports.
Center == "center"

DevicePos == "device"

(***************************************************************************)
(* Pure functions of the client.                                           *)
(***************************************************************************)
DigitChars == <<"0", "1", "2", "3", "4", "5", "6", "7", "8", "9">>

\* String(n).padStart(2, "0") for 0 <= n < 100
Pad2(n) ==
  IF n < 10 THEN <<"0", DigitChars[n + 1]>>
  ELSE <<DigitChars[(n \div 10) + 1], DigitChars[(n % 10) + 1]>>

\* the HH:MM:SS label of pushPulse, of a time in ms since local midnight
Label(t) ==
  LET secs == t \div 1000
      h == (secs \div 3600) % 24
      m == (secs \div 60) % 60
      s == secs % 60
  IN Pad2(h) \o <<":">> \o Pad2(m) \o <<":">> \o Pad2(s)

\* Array.prototype.shift: drops the first element, a no-op on an empty array
Shift(a) == IF a = <<>> THEN a ELSE Tail(a)

\* An eviction that shifts the values and leaves the labels.
EvictValuesOnly(series, labels, maxPoints) ==
  IF Len(series) > maxPoints
  THEN [series |-> Shift(series), labels |-> labels]
  ELSE [series |-> series, labels |-> labels]

RECURSIVE Evict(_, _, _)
\* while (pulseSeries.length > maxPoints) { pulseSeries.shift(); pulseLabels.shift(); }
Evict(series, labels, maxPoints) ==
  IF Len(series) > maxPoints
  THEN Evict(Shift(series), Shift(labels), maxPoints)
  ELSE [series |-> series, labels |-> labels]

\* A buffer that, when full, drops the value just pushed instead of the oldest.
PushPulseDropNewest(series, labels, pulse, t, maxPoints) ==
  IF Len(series) >= maxPoints
  THEN [series |-> series, labels |-> labels]
  ELSE [series |-> Append(series, pulse), labels |-> Append(labels, Label(t))]

\* pushPulse(pulse) at time t: the arrays after the call
PushPulse(series, labels, pulse, t, maxPoints) ==
  Evict(Append(series, pulse), Append(labels, Label(t)), maxPoints)

\* pills that warn from the threshold on
ApplyAlertsInclusive(v, variant) ==
  [ pulseAlert |->
      IF v.pulse_bpm >= PulseHighAbove
      THEN [text |-> IF variant = "static" THEN "High" ELSE "Warning", cls |-> "pill pill-warn"]
      ELSE [text |-> "Normal", cls |-> "pill pill-ok"],
    tempAlert |->
      IF v.temperature_c >= FeverAbove
      THEN [text |-> "Fever", cls |-> "pill pill-danger"]
      ELSE [text |-> "Normal", cls |-> "pill pill-ok"] ]

\* applyAlerts(vitals): the two pills, a function of the snapshot alone
ApplyAlerts(v, variant) ==
  [ pulseAlert |->
      IF v.pulse_bpm > PulseHighAbove
      THEN [text |-> IF variant = "static" THEN "High" ELSE "Warning", cls |-> "pill pill-warn"]
      ELSE [text |-> "Normal", cls |-> "pill pill-ok"],
    tempAlert |->
      IF v.temperature_c > FeverAbove
      THEN [text |-> "Fever", cls |-> "pill pill-danger"]
      ELSE [text |-> "Normal", cls |-> "pill pill-ok"] ]

\* the pills of the page before any snapshot was applied
NoPills == [pulseAlert |-> [text |-> "", cls |-> ""], tempAlert |-> [text |-> "", cls |-> ""]]

\* animateNumber(el, nextValue): el.dataset.value = String(Number(nextValue)),
\* set before the first frame runs; the memoized value of the field
AnimateNumber(nextValue) == Some(nextValue)

\* the four animateNumber calls of one apply
AnimateAll(v) ==
  [ pulse |-> AnimateNumber(v.pulse_bpm),
    temp |-> AnimateNumber(v.temperature_c),
    oxygen |-> AnimateNumber(v.oxygen_percent),
    air |-> AnimateNumber(v.air_quality_ppm) ]

NoMemo == [pulse |-> None, temp |-> None, oxygen |-> None, air |-> None]

(***************************************************************************)
(* animateNumber's frame callback.  Values are in tenths (37.5 is 375),    *)
(* times in milliseconds; frames fall on multiples of FrameStepMs, a sixth *)
(* of the duration, so that t, eased and v are exact fractions over        *)
(* EaseDen.                                                                *)
(***************************************************************************)
\* const duration = 420
AnimDurationMs == 420

FrameStepMs == AnimDurationMs \div EaseSteps

EaseDen == EaseSteps * EaseSteps * EaseSteps

\* t = Math.min(1, (now - start) / duration), in sixths
FrameT(start, at) ==
  LET e == (at - start) \div FrameStepMs IN IF e > EaseSteps THEN EaseSteps ELSE e

\* eased = 1 - Math.pow(1 - t, 3), over EaseDen
Eased(t) == EaseDen - ((EaseSteps - t) * (EaseSteps - t) * (EaseSteps - t))

\* v = current + (target - current) * eased, in tenths over EaseDen
FrameValue(current, target, t) == (current * EaseDen) + ((target - current) * Eased(t))

\* v.toFixed(decimals) for decimals 0 and 1 and v >= 0: the nearest number
\* with that many decimals, the larger one on a tie; n is the number scaled
\* by 10^decimals
ToFixed(num, decimals) ==
  [ d |-> decimals,
    n |-> IF decimals = 1
          THEN ((2 * num) + EaseDen) \div (2 * EaseDen)
          ELSE ((2 * num) + (10 * EaseDen)) \div (20 * EaseDen) ]

\* if (t < 1) requestAnimationFrame(frame)
Reschedule(t) == t < EaseSteps

\* a frame callback that stops one step short of the target
FrameWriteShort(c, at) ==
  ToFixed(FrameValue(c.current, c.target,
                     IF FrameT(c.start, at) = EaseSteps THEN EaseSteps - 1
                     ELSE FrameT(c.start, at)), c.decimals)

\* el.textContent after frame(now) of the call c
FrameWrite(c, at) ==
  ToFixed(FrameValue(c.current, c.target, FrameT(c.start, at)), c.decimals)

\* An animation frame that runs the callback registered last first.
RECURSIVE RunFramesNewestFirst(_, _, _)
RunFramesNewestFirst(frames, text, at) ==
  IF frames = <<>> THEN [text |-> text, frames |-> <<>>]
  ELSE LET c == frames[Len(frames)]
           t == FrameT(c.start, at)
           rest == RunFramesNewestFirst(SubSeq(frames, 1, Len(frames) - 1), FrameWrite(c, at), at)
       IN [ text |-> rest.text,
            frames |-> IF Reschedule(t)
                       THEN rest.frames \o <<[c EXCEPT !.ran = t]>>
                       ELSE rest.frames ]

\* One animation frame at time at: the pending callbacks run in the order
\* they were registered; each writes el.textContent and registers itself
\* again while t < 1.
RECURSIVE RunFrames(_, _, _)
RunFrames(frames, text, at) ==
  IF frames = <<>> THEN [text |-> text, frames |-> <<>>]
  ELSE LET c == Head(frames)
           t == FrameT(c.start, at)
           rest == RunFrames(Tail(frames), FrameWrite(c, at), at)
       IN [ text |-> rest.text,
            frames |-> IF Reschedule(t)
                       THEN <<[c EXCEPT !.ran = t]>> \o rest.frames
                       ELSE rest.frames ]

\* the classes setRiskUI removes from and adds to the app root
RiskClasses == {"risk-low", "risk-medium", "risk-critical", "critical"}

\* String((risk || {}).risk_level || "") and Number((risk || {}).risk_score || 0)
LevelOf(riskOpt) == IF riskOpt = None THEN "" ELSE riskOpt[1].risk_level

ScoreOf(riskOpt) == IF riskOpt = None THEN 0 ELSE riskOpt[1].risk_score

\* the text, score readout and indicator colour setRiskUI sets
RiskStyle(riskOpt) ==
  LET level == LevelOf(riskOpt) IN
  [ text |-> IF level # "" THEN level ELSE "--",
    meta |-> ScoreOf(riskOpt),
    indicator |-> CASE level = "Critical" -> "red"
                    [] level = "Medium" -> "amber"
                    [] level = "Low" -> "green"
                    [] OTHER -> "grey" ]

\* the classes setRiskUI adds to the app root for a level
RiskAdd(level) ==
  CASE level = "Critical" -> {"risk-critical", "critical"}
    [] level = "Medium" -> {"risk-medium"}
    [] level = "Low" -> {"risk-low"}
    [] OTHER -> {}

\* a class list that only grows
RiskClassListKeeping(classes, riskOpt) == classes \cup RiskAdd(LevelOf(riskOpt))

\* appEl.classList.remove(...) of the four classes, then the add of the level's
RiskClassList(classes, riskOpt) == (classes \ RiskClasses) \cup RiskAdd(LevelOf(riskOpt))

\* the risk styling of the page before setRiskUI ran
NoRiskUI == [text |-> "", meta |-> 0, indicator |-> ""]

\* what the audio subsystem does when a cue is synthesised: it plays, the
\* AudioContext constructor throws, or a later call on the context throws
AudioOutcomes(ctx) == IF ctx THEN {"ok", "synthThrows"} ELSE {"ok", "ctorThrows", "synthThrows"}

\* One requested cue, as recorded in the history cues.
Cue(t, kind, origin, outcome) == [at |-> t, kind |-> kind, origin |-> origin, outcome |-> outcome]

\* A throttle whose window is restarted by the requests it suppresses.
PlayIcuAlertRestarting(a, kind, origin, t, audio) ==
  IF t - a.lastBeepAt < BeepGapMs
  THEN [a EXCEPT !.lastBeepAt = t, !.cues = Append(@, Cue(t, kind, origin, "suppressed"))]
  ELSE [ lastBeepAt |-> t,
         audioCtx |-> (a.audioCtx \/ audio # "ctorThrows"),
         cues |-> Append(a.cues, Cue(t, kind, origin, IF audio = "ok" THEN "played" ELSE "failed")) ]

\* playIcuAlert(kind) at time t; a is the state [lastBeepAt, audioCtx, cues]
PlayIcuAlert(a, kind, origin, t, audio) ==
  IF t - a.lastBeepAt < BeepGapMs
  THEN [a EXCEPT !.cues = Append(@, Cue(t, kind, origin, "suppressed"))]
  ELSE [ lastBeepAt |-> t,
         audioCtx |-> (a.audioCtx \/ audio # "ctorThrows"),
         cues |-> Append(a.cues, Cue(t, kind, origin, IF audio = "ok" THEN "played" ELSE "failed")) ]

\* A gate that requests the cue of the level at every evaluation.
RiskCueUngated(r, level, t, audio) ==
  IF level # ""
  THEN [ lastRiskLevel |-> level,
         a |-> CASE level = "Critical" -> PlayIcuAlert(r.a, "critical", "risk", t, audio)
                 [] level = "Medium" -> PlayIcuAlert(r.a, "medium", "risk", t, audio)
                 [] OTHER -> r.a ]
  ELSE r

\* A gate that remembers the level only when its cue passed the throttle.
RiskCueIfPlayed(r, level, t, audio) ==
  IF level # "" /\ level # r.lastRiskLevel
  THEN IF level \in {"Critical", "Medium"} /\ t - r.a.lastBeepAt < BeepGapMs
       THEN [r EXCEPT !.a = PlayIcuAlert(r.a, IF level = "Critical" THEN "critical" ELSE "medium",
                                         "risk", t, audio)]
       ELSE [ lastRiskLevel |-> level,
              a |-> CASE level = "Critical" -> PlayIcuAlert(r.a, "critical", "risk", t, audio)
                      [] level = "Medium" -> PlayIcuAlert(r.a, "medium", "risk", t, audio)
                      [] OTHER -> r.a ]
  ELSE r

\* the last statement of setRiskUI: the transition gate, on r = [lastRiskLevel, a]
RiskCue(r, level, t, audio) ==
  IF level # "" /\ level # r.lastRiskLevel
  THEN [ lastRiskLevel |-> level,
         a |-> CASE level = "Critical" -> PlayIcuAlert(r.a, "critical", "risk", t, audio)
                 [] level = "Medium" -> PlayIcuAlert(r.a, "medium", "risk", t, audio)
                 [] OTHER -> r.a ]
  ELSE r

\* A setRiskUI out of which a failed synthesis throws: the styling is done,
\* the level is not remembered.
SetRiskUIAudioThrows(riskOpt, classes, r, t, audio) ==
  [ riskUI |-> RiskStyle(riskOpt),
    appClasses |-> RiskClassList(classes, riskOpt),
    r |-> LET res == RiskCue(r, LevelOf(riskOpt), t, audio)
          IN IF Len(res.a.cues) > Len(r.a.cues) /\ res.a.cues[Len(res.a.cues)].outcome = "failed"
             THEN [res EXCEPT !.lastRiskLevel = r.lastRiskLevel]
             ELSE res ]

\* A setRiskUI that remembers the level but cues on Critical only.
SetRiskUICriticalOnly(riskOpt, classes, r, t, audio) ==
  [ riskUI |-> RiskStyle(riskOpt),
    appClasses |-> RiskClassList(classes, riskOpt),
    r |-> IF LevelOf(riskOpt) = "Medium" /\ r.lastRiskLevel # "Medium"
          THEN [r EXCEPT !.lastRiskLevel = "Medium"]
          ELSE RiskCue(r, LevelOf(riskOpt), t, audio) ]

\* setRiskUI(risk) at time t: the styling, the root classes and the gate
SetRiskUI(riskOpt, classes, r, t, audio) ==
  [ riskUI |-> RiskStyle(riskOpt),
    appClasses |-> RiskClassList(classes, riskOpt),
    r |-> RiskCue(r, LevelOf(riskOpt), t, audio) ]

\* localStorage.getItem(sessionKey) || ""
LoadSession(item) == IF item = NoItem THEN "" ELSE item

\* localStorage.setItem(sessionKey, sessionId): the value is stored as a string
StoreSession(sid) == IF sid = Undefined THEN "undefined" ELSE sid

\* what refreshVitals puts in the query string and what JSON.stringify keeps of
\* session_id: nothing when sessionId is "" (vitals) or undefined
NoSid == ""

QuerySid(sid) == IF sid = "" \/ sid = Undefined THEN NoSid ELSE sid

BodySid(sid) == IF sid = Undefined THEN NoSid ELSE sid

\* String(text || "").trim() on a text of spaces and letters
RECURSIVE TrimLeft(_)
TrimLeft(s) == IF s # <<>> /\ Head(s) = " " THEN TrimLeft(Tail(s)) ELSE s

RECURSIVE TrimRight(_)
TrimRight(s) == IF s # <<>> /\ s[Len(s)] = " " THEN TrimRight(SubSeq(s, 1, Len(s) - 1)) ELSE s

\* A trim that keeps the spaces.
TrimNothing(s) == s

Trim(s) == TrimRight(TrimLeft(s))

(***************************************************************************)
(* State.                                                                  *)
(***************************************************************************)
VARIABLES
  variant,            \* which app.js runs
  now,                \* Date.now(), ms
  bootPc,             \* where boot() stands: hospitals, geo, vitals, done, failed
  intervalOn,         \* setInterval(refreshVitals) was called
  nextTickAt,         \* when the interval fires next
  handlersOn,         \* the submit and SOS click listeners are installed
  sessionId,          \* let sessionId
  stored,             \* localStorage[sessionKey]
  tasks,              \* requests in flight and pending continuations
  nops,               \* interval polls, chat submissions and SOS clicks so far
  memo,               \* el.dataset.value of the four numeric fields
  pills,              \* els.pulseAlert and els.tempAlert
  riskUI,             \* riskText, riskMeta, riskIndicator
  appClasses,         \* appEl.classList
  lastRiskLevel,
  lastBeepAt,
  audioCtx,           \* TRUE once an AudioContext exists
  pulseSeries, pulseLabels,
  toast,
  lastKnownLocation,
  chatUI,             \* btnSend.disabled, chatInput.disabled, aiLoading hidden
  transcript,         \* the children of els.chatMessages
  sosResult,
  hospitalList,       \* TRUE once the hospital list was rendered
  cues,               \* history: every playIcuAlert call
  knownId,            \* history: the last identifier loaded or received
  issued,             \* history: the identifiers loaded or received so far
  pushed,             \* history: every value passed to pushPulse
  lastApplied,        \* history: the response whose payload was applied last
  lastEvent,          \* history: the handler that ran last
  feed,               \* the input stream of the buffer specification
  anim                \* the animated element: its text and the frame callbacks pending

sessVars == <<sessionId, stored, knownId, issued>>

vitalVars == <<memo, pills, pulseSeries, pulseLabels, pushed>>

riskVars == <<riskUI, appClasses, lastRiskLevel>>

audioVars == <<lastBeepAt, audioCtx, cues>>

bootVars == <<bootPc, intervalOn, nextTickAt, handlersOn>>

countVars == <<nops>>

chatVars == <<chatUI, transcript>>

vars ==
  <<variant, now, bootVars, sessVars, tasks, countVars, vitalVars, riskVars, audioVars,
    toast, lastKnownLocation, chatVars, sosResult, hospitalList, lastApplied, lastEvent, feed, anim>>

\* One pending asynchronous operation; rid tells the pending ones apart.
NewRid ==
  LET used == {t.rid : t \in tasks}
  IN CHOOSE n \in 1..(Cardinality(used) + 1) : n \notin used /\ \A m \in 1..(n - 1) : m \in used

Task(rid, kind, stage, origin, sid, loc) ==
  [ rid |-> rid, kind |-> kind, stage |-> stage, origin |-> origin,
    sid |-> sid, known |-> knownId, loc |-> loc, data |-> None, i |-> 0 ]

\* The history lastEvent names the handler that ran last when it was one of:
TrackedEvents ==
  {"boot", "pollFail", "bootVitalsFail", "hospitalsFail", "chatFail", "sosFail", "sosThrow",
   "sendChatBlank"}

Ev(op, rid) == [op |-> IF op \in TrackedEvents THEN op ELSE "step"]

\* The history lastEvent after getGeo() resolved, with what the device did.
GeoEv(outcome) == [op |-> "geo", outcome |-> outcome]

NoFeed == [base |-> 0, stride |-> 0, dt |-> 0]

\* Nothing was animated: the element shows its markup, no frame is pending.
NoAnim == [text |-> None, frames |-> <<>>, framed |-> FALSE, call |-> None]

\* The state right after the synchronous part of boot(): "static" awaits
\* loadHospitals(); "backend" has started loadHospitals() and refreshVitals(),
\* shown its greeting, started the interval and installed the listeners.
Greeting == [cls |-> "msg bot", text |-> <<"h", "e", "l", "l", "o">>, of |-> 0]

InitOf(v, item) ==
  /\ variant = v
  /\ now = StartTime
  /\ stored = item
  /\ sessionId = LoadSession(item)
  /\ knownId = LoadSession(item)
  /\ issued = {item} \cap Ids
  /\ memo = NoMemo /\ pills = NoPills /\ riskUI = NoRiskUI /\ appClasses = {}
  /\ lastRiskLevel = "" /\ lastBeepAt = 0 /\ audioCtx = FALSE
  /\ pulseSeries = <<>> /\ pulseLabels = <<>>
  /\ toast = "" /\ lastKnownLocation = Center
  /\ chatUI = [sendDisabled |-> FALSE, inputDisabled |-> FALSE, loadingHidden |-> TRUE]
  /\ sosResult = "" /\ hospitalList = FALSE
  /\ cues = <<>> /\ pushed = <<>> /\ lastApplied = None
  /\ nops = 0
  /\ anim = NoAnim
  /\ IF v = "static"
     THEN /\ bootPc = "hospitals" /\ intervalOn = FALSE /\ handlersOn = FALSE
          /\ nextTickAt = 0
          /\ transcript = <<>>
          /\ tasks = { [rid |-> 1, kind |-> "hospitals", stage |-> "fetch", origin |-> "boot",
                        sid |-> NoSid, known |-> LoadSession(item), loc |-> Center,
                        data |-> None, i |-> 0] }
          /\ lastEvent = Ev("boot", 0)
     ELSE /\ bootPc = "done" /\ intervalOn = TRUE /\ handlersOn = TRUE
          /\ nextTickAt = StartTime + PollMs(v)
          /\ transcript = <<Greeting>>
          /\ tasks = { [rid |-> 1, kind |-> "hospitals", stage |-> "fetch", origin |-> "boot",
                        sid |-> NoSid, known |-> LoadSession(item), loc |-> Center,
                        data |-> None, i |-> 0],
                       [rid |-> 2, kind |-> "vitals", stage |-> "fetch", origin |-> "boot",
                        sid |-> QuerySid(LoadSession(item)), known |-> LoadSession(item),
                        loc |-> Center, data |-> None, i |-> 0] }
          /\ lastEvent = Ev("boot", 0)

Init == \E v \in Variants, item \in {NoItem, "s2"} : InitOf(v, item) /\ feed = NoFeed

(***************************************************************************)
(* Fragments of handlers.                                                  *)
(***************************************************************************)
\* sessionId = data.session_id; localStorage.setItem(sessionKey, sessionId);
AdoptSession(sid) ==
  /\ sessionId' = sid
  /\ stored' = StoreSession(sid)
  /\ knownId' = IF sid \in Ids THEN sid ELSE knownId
  /\ issued' = issued \cup ({sid} \cap Ids)

\* the four animateNumber calls, applyAlerts(v) and pushPulse(v.pulse_bpm)
ApplyVitals(v) ==
  /\ memo' = AnimateAll(v)
  /\ pills' = ApplyAlerts(v, variant)
  /\ LET b == PushPulse(pulseSeries, pulseLabels, v.pulse_bpm, now, MaxPoints(variant))
     IN pulseSeries' = b.series /\ pulseLabels' = b.labels
  /\ pushed' = Append(pushed, v.pulse_bpm)

\* how many responses had their payload applied so far
Applies == IF lastApplied = None THEN 0 ELSE lastApplied[1].n

\* how many of them carried vitals
VitalsApplies == IF lastApplied = None THEN 0 ELSE lastApplied[1].nv

\* The statements of one apply in the order the handler runs them: the four
\* animateNumber calls, applyAlerts and pushPulse when the response carries
\* vitals, then setRiskUI when the handler evaluates the risk.
ApplyOrder(vitalsOpt, evaluated) ==
  (IF vitalsOpt # None
   THEN <<"animate pulse", "animate temp", "animate oxygen", "animate air",
          "applyAlerts", "pushPulse">>
   ELSE <<>>)
  \o (IF evaluated THEN <<"setRiskUI">> ELSE <<>>)

\* The history lastApplied after the payload (vitals, risk) of one more
\* response was applied; repeat tells that the response before it carried
\* the same payload, steps the statements that ran, evaluated whether
\* setRiskUI was among them.
Applied(vitalsOpt, riskOpt, evaluated) ==
  Some([ n |-> Applies + 1, vitals |-> vitalsOpt, risk |-> riskOpt,
         nv |-> VitalsApplies + (IF vitalsOpt # None THEN 1 ELSE 0),
         repeat |-> /\ lastApplied # None
                    /\ lastApplied[1].vitals = vitalsOpt
                    /\ lastApplied[1].risk = riskOpt,
         steps |-> ApplyOrder(vitalsOpt, evaluated) ])

AudioState == [lastBeepAt |-> lastBeepAt, audioCtx |-> audioCtx, cues |-> cues]

SetAudio(a) ==
  /\ lastBeepAt' = a.lastBeepAt
  /\ audioCtx' = a.audioCtx
  /\ cues' = a.cues

\* an optional field of a response over the values S
Opt(S) == {None} \cup {Some(x) : x \in S}

\* getGeo(): the position it resolves to
GetGeo(outcome) == IF outcome = "ok" THEN DevicePos ELSE Center

(***************************************************************************)
(* boot() and loadHospitals().                                             *)
(***************************************************************************)
\* /api/hospitals answers: the list is rendered; "static" then shows its
\* greeting and awaits getGeo()
HospitalsOk(t) ==
  /\ t \in tasks /\ t.kind = "hospitals"
  /\ tasks' = tasks \ {t}
  /\ hospitalList' = TRUE
  /\ IF variant = "static"
     THEN /\ bootPc' = "geo"
          /\ transcript' = Append(transcript, Greeting)
          /\ UNCHANGED <<intervalOn, nextTickAt, handlersOn, chatUI>>
     ELSE UNCHANGED <<bootVars, chatVars>>
  /\ lastEvent' = Ev("hospitalsOk", t.rid)
  /\ UNCHANGED <<variant, now, sessVars, countVars, vitalVars, riskVars, audioVars, toast,
                 lastKnownLocation, sosResult, lastApplied, feed, anim>>

\* /api/hospitals fails: "static" boot() rejects and boot().catch shows the
\* notice; "backend" shows the notice of loadHospitals().catch
HospitalsFail(t) ==
  /\ t \in tasks /\ t.kind = "hospitals"
  /\ tasks' = tasks \ {t}
  /\ IF variant = "static"
     THEN /\ bootPc' = "failed"
          /\ toast' = "Boot error"
          /\ UNCHANGED <<intervalOn, nextTickAt, handlersOn>>
     ELSE /\ toast' = "Hospitals load error"
          /\ UNCHANGED bootVars
  /\ lastEvent' = Ev("hospitalsFail", t.rid)
  /\ UNCHANGED <<variant, now, sessVars, countVars, vitalVars, riskVars, audioVars,
                 lastKnownLocation, chatVars, sosResult, hospitalList, lastApplied, feed, anim>>

\* "static" boot(): getGeo() resolves, the location is remembered and the
\* first refreshVitals() sends its request
BootGeo(outcome) ==
  /\ variant = "static" /\ bootPc = "geo"
  /\ lastKnownLocation' = GetGeo(outcome)
  /\ bootPc' = "vitals"
  /\ tasks' = tasks \cup {Task(NewRid, "vitals", "fetch", "boot", QuerySid(sessionId), Center)}
  /\ lastEvent' = GeoEv(outcome)
  /\ UNCHANGED <<variant, now, intervalOn, nextTickAt, handlersOn, sessVars, nops,
                 vitalVars, riskVars, audioVars, toast, chatVars, sosResult,
                 hospitalList, lastApplied, feed, anim>>

(***************************************************************************)
(* refreshVitals() and the poll loop.                                      *)
(***************************************************************************)
\* the interval fires: refreshVitals() sends its request
IntervalTick(maxOps) ==
  /\ intervalOn /\ now >= nextTickAt /\ nops < maxOps
  /\ nextTickAt' = nextTickAt + PollMs(variant)
  /\ nops' = nops + 1
  /\ tasks' = tasks \cup {Task(NewRid, "vitals", "fetch", "interval", QuerySid(sessionId), Center)}
  /\ lastEvent' = Ev("intervalTick", NewRid)
  /\ UNCHANGED <<variant, now, bootPc, intervalOn, handlersOn, sessVars,
                 vitalVars, riskVars, audioVars, toast, lastKnownLocation, chatVars,
                 sosResult, hospitalList, lastApplied, feed, anim>>

\* A refreshVitals that yields before setRiskUI: the risk styling is not part
\* of the step that applies the snapshot.
VitalsOkRiskLater(t, d, audio) ==
  /\ t \in tasks /\ t.kind = "vitals"
  /\ tasks' = tasks \ {t}
  /\ AdoptSession(d.session_id)
  /\ ApplyVitals(d.vitals)
  /\ UNCHANGED <<riskVars, audioVars>>
  /\ lastApplied' = Applied(Some(d.vitals), d.risk, variant = "static")
  /\ IF variant = "static" /\ t.origin = "boot"
     THEN /\ bootPc' = "done"
          /\ intervalOn' = TRUE
          /\ nextTickAt' = now + PollMs(variant)
          /\ handlersOn' = TRUE
     ELSE UNCHANGED bootVars
  /\ lastEvent' = Ev(IF t.origin = "boot" THEN "bootVitalsOk" ELSE "pollOk", t.rid)
  /\ UNCHANGED <<variant, now, countVars, toast, lastKnownLocation, chatVars, sosResult,
                 hospitalList, feed, anim>>

\* /api/vitals answers d: the rest of refreshVitals(); after the boot-time
\* fetch "static" boot() goes on to start the interval and install the listeners
VitalsOk(t, d, audio) ==
  /\ t \in tasks /\ t.kind = "vitals"
  /\ tasks' = tasks \ {t}
  /\ AdoptSession(d.session_id)
  /\ ApplyVitals(d.vitals)
  /\ IF variant = "static"
     THEN LET res == SetRiskUI(d.risk, appClasses,
                               [lastRiskLevel |-> lastRiskLevel, a |-> AudioState], now, audio)
          IN /\ riskUI' = res.riskUI
             /\ appClasses' = res.appClasses
             /\ lastRiskLevel' = res.r.lastRiskLevel
             /\ SetAudio(res.r.a)
     ELSE UNCHANGED <<riskVars, audioVars>>
  /\ lastApplied' = Applied(Some(d.vitals), d.risk, variant = "static")
  /\ IF variant = "static" /\ t.origin = "boot"
     THEN /\ bootPc' = "done"
          /\ intervalOn' = TRUE
          /\ nextTickAt' = now + PollMs(variant)
          /\ handlersOn' = TRUE
     ELSE UNCHANGED bootVars
  /\ lastEvent' = Ev(IF t.origin = "boot" THEN "bootVitalsOk" ELSE "pollOk", t.rid)
  /\ UNCHANGED <<variant, now, countVars, toast, lastKnownLocation, chatVars, sosResult,
                 hospitalList, feed, anim>>

\* A client that shows a notice for every failed vitals fetch, the interval's too.
VitalsFailNoisy(t) ==
  /\ t \in tasks /\ t.kind = "vitals"
  /\ tasks' = tasks \ {t}
  /\ toast' = "Vitals error"
  /\ IF t.origin = "boot" /\ variant = "static"
     THEN /\ bootPc' = "failed"
          /\ UNCHANGED <<intervalOn, nextTickAt, handlersOn>>
     ELSE UNCHANGED bootVars
  /\ lastEvent' = Ev(IF t.origin = "boot" THEN "bootVitalsFail" ELSE "pollFail", t.rid)
  /\ UNCHANGED <<variant, now, sessVars, countVars, vitalVars, riskVars, audioVars,
                 lastKnownLocation, chatVars, sosResult, hospitalList, lastApplied, feed, anim>>

\* /api/vitals fails (fetch rejected or not ok): refreshVitals() rejects
\* before it changed anything.  The interval's catch swallows it; the
\* boot-time fetch rejects boot() ("static") or shows its notice ("backend")
VitalsFail(t) ==
  /\ t \in tasks /\ t.kind = "vitals"
  /\ tasks' = tasks \ {t}
  /\ IF t.origin = "boot"
     THEN IF variant = "static"
          THEN /\ bootPc' = "failed"
               /\ toast' = "Boot error"
               /\ UNCHANGED <<intervalOn, nextTickAt, handlersOn>>
          ELSE /\ toast' = "Vitals error"
               /\ UNCHANGED bootVars
     ELSE UNCHANGED <<bootVars, toast>>
  /\ lastEvent' = Ev(IF t.origin = "boot" THEN "bootVitalsFail" ELSE "pollFail", t.rid)
  /\ UNCHANGED <<variant, now, sessVars, countVars, vitalVars, riskVars, audioVars,
                 lastKnownLocation, chatVars, sosResult, hospitalList, lastApplied, feed, anim>>

\* Time passes, up to the moment the interval is due.
AdvanceTime(maxClock, maxOps) ==
  /\ now < StartTime + maxClock * TimeStep
  /\ ~(intervalOn /\ now >= nextTickAt /\ nops < maxOps)
  /\ now' = IF intervalOn /\ nops < maxOps /\ nextTickAt < now + TimeStep
            THEN nextTickAt ELSE now + TimeStep
  /\ lastEvent' = Ev("time", 0)
  /\ UNCHANGED <<variant, bootVars, sessVars, tasks, countVars, vitalVars, riskVars, audioVars,
                 toast, lastKnownLocation, chatVars, sosResult, hospitalList, lastApplied, feed, anim>>

(***************************************************************************)
(* sendChat(text) and typewriterInto.                                      *)
(***************************************************************************)
ChatEnabledUI == [sendDisabled |-> FALSE, inputDisabled |-> FALSE, loadingHidden |-> TRUE]

\* A busy state that disables the button and leaves the input usable.
ChatBusyButtonOnly == [sendDisabled |-> TRUE, inputDisabled |-> FALSE, loadingHidden |-> FALSE]

ChatBusyUI == [sendDisabled |-> TRUE, inputDisabled |-> TRUE, loadingHidden |-> FALSE]

\* typing.remove(): the typing indicator of turn rid leaves the transcript
RemoveTyping(msgs, rid) ==
  LET Keep(m) == ~(m.of = rid /\ m.cls = "msg bot typing") IN SelectSeq(msgs, Keep)

\* el.textContent = text on the reply element of turn rid
SetReplyText(msgs, rid, text) ==
  [k \in DOMAIN msgs |->
     IF msgs[k].of = rid /\ msgs[k].cls = "msg bot" THEN [msgs[k] EXCEPT !.text = text]
     ELSE msgs[k]]

\* sendChat returns: its reference to the reply element is dropped
Release(msgs, rid) ==
  [k \in DOMAIN msgs |-> IF msgs[k].of = rid THEN [msgs[k] EXCEPT !.of = 0] ELSE msgs[k]]

\* a text of no characters or of spaces only
IsBlank(s) == \A k \in DOMAIN s : s[k] = " "

\* String(text || "") of a reply that may be missing
ReplyText(replyOpt) == IF replyOpt = None THEN <<>> ELSE replyOpt[1]

\* the submit listener: sendChat(els.chatInput.value) up to its await.  The
\* form cannot be submitted while its input and button are disabled
SendChat(text, maxOps) ==
  /\ handlersOn /\ nops < maxOps
  /\ ~(chatUI.sendDisabled /\ chatUI.inputDisabled)
  /\ nops' = nops + 1
  /\ lastEvent' = Ev(IF IsBlank(text) THEN "sendChatBlank" ELSE "sendChat", 0)
  /\ IF Trim(text) = <<>>
     THEN UNCHANGED <<tasks, toast, chatVars>>
     ELSE /\ toast' = ""
          /\ IF variant = "static"
             THEN /\ chatUI' = ChatBusyUI
                  /\ transcript' = transcript \o
                       << [cls |-> "msg user", text |-> Trim(text), of |-> 0],
                          [cls |-> "msg bot typing", text |-> <<>>, of |-> NewRid] >>
                  /\ tasks' = tasks \cup
                       {Task(NewRid, "chat", "fetch", "user", BodySid(sessionId), lastKnownLocation)}
             ELSE /\ chatUI' = chatUI
                  /\ transcript' = Append(transcript,
                                          [cls |-> "msg user", text |-> Trim(text), of |-> 0])
                  /\ tasks' = tasks \cup
                       {Task(NewRid, "chat", "fetch", "user", BodySid(sessionId), Center)}
  /\ UNCHANGED <<variant, now, bootVars, sessVars, vitalVars, riskVars, audioVars,
                 lastKnownLocation, sosResult, hospitalList, lastApplied, feed, anim>>

\* A sendChat whose auto-emergency cue goes through the transition gate: it
\* is requested only when the level observed last is not Critical.
ChatApplyGatedAuto(t, d, audio) ==
  /\ IF d.vitals # None THEN ApplyVitals(d.vitals[1]) ELSE UNCHANGED vitalVars
  /\ IF variant = "static"
     THEN LET r0 == [lastRiskLevel |-> lastRiskLevel, a |-> AudioState]
              res == IF d.risk # None
                     THEN SetRiskUI(d.risk, appClasses, r0, now, audio)
                     ELSE [riskUI |-> riskUI, appClasses |-> appClasses, r |-> r0]
              a2 == IF d.auto /\ res.r.lastRiskLevel # "Critical"
                    THEN PlayIcuAlert(res.r.a, "critical", "auto", now, audio)
                    ELSE res.r.a
          IN /\ riskUI' = res.riskUI
             /\ appClasses' = res.appClasses
             /\ lastRiskLevel' = res.r.lastRiskLevel
             /\ SetAudio(a2)
             /\ sosResult' = IF d.auto THEN "AUTO EMERGENCY" ELSE sosResult
             /\ chatUI' = ChatEnabledUI
     ELSE UNCHANGED <<riskVars, audioVars, sosResult, chatUI>>
  /\ lastApplied' =
       IF d.vitals # None \/ (variant = "static" /\ d.risk # None)
       THEN Applied(d.vitals, d.risk, variant = "static" /\ d.risk # None)
       ELSE lastApplied

\* the statements of sendChat after the reply is shown: the vitals and risk
\* of the response, the auto emergency and, in "static", the finally block
ChatApply(t, d, audio) ==
  /\ IF d.vitals # None THEN ApplyVitals(d.vitals[1]) ELSE UNCHANGED vitalVars
  /\ IF variant = "static"
     THEN LET r0 == [lastRiskLevel |-> lastRiskLevel, a |-> AudioState]
              res == IF d.risk # None
                     THEN SetRiskUI(d.risk, appClasses, r0, now, audio)
                     ELSE [riskUI |-> riskUI, appClasses |-> appClasses, r |-> r0]
              a2 == IF d.auto
                    THEN PlayIcuAlert(res.r.a, "critical", "auto", now, audio)
                    ELSE res.r.a
          IN /\ riskUI' = res.riskUI
             /\ appClasses' = res.appClasses
             /\ lastRiskLevel' = res.r.lastRiskLevel
             /\ SetAudio(a2)
             /\ sosResult' = IF d.auto THEN "AUTO EMERGENCY" ELSE sosResult
             /\ chatUI' = ChatEnabledUI
     ELSE UNCHANGED <<riskVars, audioVars, sosResult, chatUI>>
  /\ lastApplied' =
       IF d.vitals # None \/ (variant = "static" /\ d.risk # None)
       THEN Applied(d.vitals, d.risk, variant = "static" /\ d.risk # None)
       ELSE lastApplied

\* /api/ask_ai answers d.  "static": the identifier is adopted, the typing
\* indicator removed, the reply element added and typewriterInto started;
\* "backend": the reply is shown and the vitals applied at once
ChatOk(t, d, audio) ==
  /\ t \in tasks /\ t.kind = "chat" /\ t.stage = "fetch"
  /\ AdoptSession(d.session_id)
  /\ IF variant = "static"
     THEN /\ tasks' = (tasks \ {t}) \cup {[t EXCEPT !.stage = "typing", !.data = Some(d), !.i = 0]}
          /\ transcript' = Append(RemoveTyping(transcript, t.rid),
                                  [cls |-> "msg bot", text |-> <<>>, of |-> t.rid])
          /\ UNCHANGED <<vitalVars, riskVars, audioVars, sosResult, chatUI, lastApplied>>
     ELSE /\ tasks' = tasks \ {t}
          /\ transcript' = Append(transcript,
                                  [cls |-> "msg bot", text |-> ReplyText(d.reply), of |-> 0])
          /\ ChatApply(t, d, audio)
  /\ lastEvent' = Ev("chatOk", t.rid)
  /\ UNCHANGED <<variant, now, bootVars, countVars, toast, lastKnownLocation, hospitalList, feed, anim>>

\* A sendChat whose failure path has no finally block.
ChatFailNoFinally(t) ==
  /\ t \in tasks /\ t.kind = "chat" /\ t.stage = "fetch"
  /\ tasks' = tasks \ {t}
  /\ toast' = "Assistant error"
  /\ IF variant = "static"
     THEN /\ transcript' = RemoveTyping(transcript, t.rid)
          /\ chatUI' = chatUI
     ELSE UNCHANGED chatVars
  /\ lastEvent' = Ev("chatFail", t.rid)
  /\ UNCHANGED <<variant, now, bootVars, sessVars, countVars, vitalVars, riskVars, audioVars,
                 lastKnownLocation, sosResult, hospitalList, lastApplied, feed, anim>>

\* /api/ask_ai fails: the catch block and, in "static", the finally block
ChatFail(t) ==
  /\ t \in tasks /\ t.kind = "chat" /\ t.stage = "fetch"
  /\ tasks' = tasks \ {t}
  /\ toast' = "Assistant error"
  /\ IF variant = "static"
     THEN /\ transcript' = RemoveTyping(transcript, t.rid)
          /\ chatUI' = ChatEnabledUI
     ELSE UNCHANGED chatVars
  /\ lastEvent' = Ev("chatFail", t.rid)
  /\ UNCHANGED <<variant, now, bootVars, sessVars, countVars, vitalVars, riskVars, audioVars,
                 lastKnownLocation, sosResult, hospitalList, lastApplied, feed, anim>>

\* A typewriter that resolves one tick after the text is complete.
TypeTickOneMore(t, audio) ==
  /\ t \in tasks /\ t.kind = "chat" /\ t.stage = "typing"
  /\ LET d == t.data[1]
         src == ReplyText(d.reply)
         i == t.i + 1
         shown == SubSeq(src, 1, IF i < Len(src) THEN i ELSE Len(src))
     IN /\ IF i > Len(src)
           THEN /\ transcript' = Release(SetReplyText(transcript, t.rid, shown), t.rid)
                /\ tasks' = tasks \ {t}
                /\ ChatApply(t, d, audio)
                /\ lastEvent' = Ev("chatDone", t.rid)
           ELSE /\ transcript' = SetReplyText(transcript, t.rid, shown)
                /\ tasks' = (tasks \ {t}) \cup {[t EXCEPT !.i = i]}
                /\ lastEvent' = Ev("typeTick", t.rid)
                /\ UNCHANGED <<vitalVars, riskVars, audioVars, sosResult, chatUI, lastApplied>>
  /\ UNCHANGED <<variant, now, bootVars, sessVars, countVars, toast, lastKnownLocation,
                 hospitalList, feed, anim>>

\* one tick of typewriterInto's interval; on the last one the timer is
\* cleared, the promise resolves and sendChat runs to its end
TypeTick(t, audio) ==
  /\ t \in tasks /\ t.kind = "chat" /\ t.stage = "typing"
  /\ LET d == t.data[1]
         src == ReplyText(d.reply)
         i == t.i + 1
         shown == SubSeq(src, 1, IF i < Len(src) THEN i ELSE Len(src))
     IN /\ IF i >= Len(src)
           THEN /\ transcript' = Release(SetReplyText(transcript, t.rid, shown), t.rid)
                /\ tasks' = tasks \ {t}
                /\ ChatApply(t, d, audio)
                /\ lastEvent' = Ev("chatDone", t.rid)
           ELSE /\ transcript' = SetReplyText(transcript, t.rid, shown)
                /\ tasks' = (tasks \ {t}) \cup {[t EXCEPT !.i = i]}
                /\ lastEvent' = Ev("typeTick", t.rid)
                /\ UNCHANGED <<vitalVars, riskVars, audioVars, sosResult, chatUI, lastApplied>>
  /\ UNCHANGED <<variant, now, bootVars, sessVars, countVars, toast, lastKnownLocation,
                 hospitalList, feed, anim>>

(***************************************************************************)
(* sos().                                                                  *)
(***************************************************************************)
\* the SOS click listener: sos() up to its await of the position
SosClick(maxOps) ==
  /\ handlersOn /\ nops < maxOps
  /\ nops' = nops + 1
  /\ toast' = IF variant = "static" THEN "Activating SOS" ELSE "Locating you for SOS"
  /\ tasks' = tasks \cup {Task(NewRid, "sos", "geo", "user", NoSid, Center)}
  /\ lastEvent' = Ev("sosClick", NewRid)
  /\ UNCHANGED <<variant, now, bootVars, sessVars, vitalVars, riskVars,
                 audioVars, lastKnownLocation, chatVars, sosResult, hospitalList, lastApplied,
                 feed, anim>>

\* A sos() that posts the resolved position without remembering it.
SosGeoForgets(t, outcome) ==
  /\ t \in tasks /\ t.kind = "sos" /\ t.stage = "geo"
  /\ lastKnownLocation' = lastKnownLocation
  /\ tasks' = (tasks \ {t}) \cup
       {[t EXCEPT !.stage = "fetch", !.loc = GetGeo(outcome), !.known = knownId,
                  !.sid = IF variant = "static" THEN BodySid(sessionId) ELSE NoSid]}
  /\ lastEvent' = GeoEv(outcome)
  /\ UNCHANGED <<variant, now, bootVars, sessVars, countVars, vitalVars, riskVars, audioVars,
                 toast, chatVars, sosResult, hospitalList, lastApplied, feed, anim>>

\* the position resolves: "static" remembers it and posts {lat, lng,
\* session_id}; "backend" posts {lat, lng}
SosGeo(t, outcome) ==
  /\ t \in tasks /\ t.kind = "sos" /\ t.stage = "geo"
  /\ lastKnownLocation' = IF variant = "static" THEN GetGeo(outcome) ELSE lastKnownLocation
  /\ tasks' = (tasks \ {t}) \cup
       {[t EXCEPT !.stage = "fetch", !.loc = GetGeo(outcome), !.known = knownId,
                  !.sid = IF variant = "static" THEN BodySid(sessionId) ELSE NoSid]}
  /\ lastEvent' = GeoEv(outcome)
  /\ UNCHANGED <<variant, now, bootVars, sessVars, countVars, vitalVars, riskVars, audioVars,
                 toast, chatVars, sosResult, hospitalList, lastApplied, feed, anim>>

\* A sos() that reads the response outside its try block: a response
\* without nearest_hospital ends the handler with nothing shown.
SosOkUncaught(t, d, audio) ==
  /\ t \in tasks /\ t.kind = "sos" /\ t.stage = "fetch"
  /\ tasks' = tasks \ {t}
  /\ IF variant = "static"
     THEN /\ AdoptSession(d.session_id)
          /\ IF d.hospital
             THEN /\ sosResult' = "SOS"
                  /\ toast' = "Nearest hospital"
                  /\ SetAudio(PlayIcuAlert(AudioState, "critical", "sos", now, audio))
             ELSE UNCHANGED <<toast, sosResult, audioVars>>
     ELSE /\ toast' = IF d.hospital THEN "Nearest hospital" ELSE toast
          /\ UNCHANGED <<sessVars, sosResult, audioVars>>
  /\ lastEvent' = Ev(IF d.hospital THEN "sosOk" ELSE "sosThrow", t.rid)
  /\ UNCHANGED <<variant, now, bootVars, countVars, vitalVars, riskVars, lastKnownLocation,
                 chatVars, hospitalList, lastApplied, feed, anim>>

\* /api/sos answers d: the try block of sos(); reading h.name of a response
\* without nearest_hospital throws into the catch block
SosOk(t, d, audio) ==
  /\ t \in tasks /\ t.kind = "sos" /\ t.stage = "fetch"
  /\ tasks' = tasks \ {t}
  /\ IF variant = "static"
     THEN /\ AdoptSession(d.session_id)
          /\ IF d.hospital
             THEN /\ sosResult' = "SOS"
                  /\ toast' = "Nearest hospital"
                  /\ SetAudio(PlayIcuAlert(AudioState, "critical", "sos", now, audio))
             ELSE /\ toast' = "SOS failed"
                  /\ UNCHANGED <<sosResult, audioVars>>
     ELSE /\ toast' = IF d.hospital THEN "Nearest hospital" ELSE "SOS failed"
          /\ UNCHANGED <<sessVars, sosResult, audioVars>>
  /\ lastEvent' = Ev(IF d.hospital THEN "sosOk" ELSE "sosThrow", t.rid)
  /\ UNCHANGED <<variant, now, bootVars, countVars, vitalVars, riskVars, lastKnownLocation,
                 chatVars, hospitalList, lastApplied, feed, anim>>

\* /api/sos fails: the catch block of sos()
SosFail(t) ==
  /\ t \in tasks /\ t.kind = "sos" /\ t.stage = "fetch"
  /\ tasks' = tasks \ {t}
  /\ toast' = "SOS failed"
  /\ lastEvent' = Ev("sosFail", t.rid)
  /\ UNCHANGED <<variant, now, bootVars, sessVars, countVars, vitalVars, riskVars, audioVars,
                 lastKnownLocation, chatVars, sosResult, hospitalList, lastApplied, feed, anim>>

(***************************************************************************)
(* The client in an environment E: the answers the backend gives, what the *)
(* audio and geolocation subsystems do and what the user types.            *)
(***************************************************************************)
NextIn(E) ==
  \/ \E t \in tasks : HospitalsOk(t)
  \/ \E t \in tasks : HospitalsFail(t)
  \/ \E o \in E.geo : BootGeo(o)
  \/ IntervalTick(E.ops)
  \/ \E t \in tasks, d \in [session_id : E.sids, vitals : E.vitals, risk : E.risks],
        a \in E.audio \cap AudioOutcomes(audioCtx) : VitalsOk(t, d, a)
  \/ \E t \in tasks : VitalsFail(t)
  \/ AdvanceTime(E.clock, E.ops)
  \/ \E x \in E.texts : SendChat(x, E.ops)
  \/ \E t \in tasks,
        d \in [session_id : E.sids, reply : E.replies, vitals : E.chatVitals,
               risk : E.chatRisks, auto : E.autos],
        a \in E.audio \cap AudioOutcomes(audioCtx) : ChatOk(t, d, a)
  \/ \E t \in tasks : ChatFail(t)
  \/ \E t \in tasks, a \in E.audio \cap AudioOutcomes(audioCtx) : TypeTick(t, a)
  \/ SosClick(E.ops)
  \/ \E t \in tasks, o \in E.geo : SosGeo(t, o)
  \/ \E t \in tasks, d \in [session_id : E.sids, hospital : BOOLEAN],
        a \in E.audio \cap AudioOutcomes(audioCtx) : SosOk(t, d, a)
  \/ \E t \in tasks : SosFail(t)

\* Sessions and lifecycle: both variants, every session_id answer (a known
\* identifier, a new one, none), one snapshot, a working audio subsystem.
SessionEnv ==
  [ sids |-> {"s1", Undefined},
    vitals |-> {v \in VitalsSet : v.pulse_bpm > PulseHighAbove},
    risks |-> {None, Some(Risk("Critical", 90))},
    chatVitals |-> {Some(v) : v \in {w \in VitalsSet : w.pulse_bpm > PulseHighAbove}},
    chatRisks |-> {None},
    replies |-> {Some(<<"o", "k">>)},
    autos |-> {FALSE},
    audio |-> {"ok"},
    geo |-> {"denied"},
    texts |-> {<<" ">>, <<"h", "i">>},
    ops |-> MaxOps, clock |-> MaxClock ]

Next == NextIn(SessionEnv)

Spec == Init /\ [][Next]_vars

\* The poll loop: both variants, a backend that always echoes "s1" and
\* reports one snapshot and one risk level.
PollEnv ==
  [ sids |-> {"s1"},
    vitals |-> {v \in VitalsSet : v.pulse_bpm > PulseHighAbove},
    risks |-> {Some(Risk("Critical", 90))},
    chatVitals |-> {None},
    chatRisks |-> {None},
    replies |-> {None},
    autos |-> {FALSE},
    audio |-> {"ok"},
    geo |-> {"denied"},
    texts |-> {<<"h", "i">>},
    ops |-> MaxPollOps, clock |-> MaxClock ]

InitPoll == \E v \in Variants : InitOf(v, "s1") /\ feed = NoFeed

NextPoll == NextIn(PollEnv)

SpecPoll == InitPoll /\ [][NextPoll]_vars

\* Alerts: the "static" client, polls that report every risk level or none,
\* chat answers with and without a risk and an auto emergency, a synthesis
\* that plays or throws.
CueEnv ==
  [ sids |-> {"s1"},
    vitals |-> {v \in VitalsSet : v.pulse_bpm > PulseHighAbove},
    risks |-> Opt(RiskSet),
    chatVitals |-> {None},
    chatRisks |-> {None, Some(Risk("Medium", 42))},
    replies |-> {None},
    autos |-> BOOLEAN,
    audio |-> {"ok", "synthThrows"},
    geo |-> {"denied"},
    texts |-> {<<"h", "i">>},
    ops |-> MaxCueOps, clock |-> MaxClock ]

InitCue == InitOf("static", "s1") /\ feed = NoFeed

NextCue == NextIn(CueEnv)

SpecCue == InitCue /\ [][NextCue]_vars

\* Snapshots: the "static" client, two vitals snapshots, two risk levels and
\* chat answers that carry vitals, a risk, both or neither.
SnapEnv ==
  [ sids |-> {"s1"},
    vitals |-> VitalsSet,
    risks |-> {Some(Risk("Low", 10)), Some(Risk("Critical", 90))},
    chatVitals |-> Opt(VitalsSet),
    chatRisks |-> {None, Some(Risk("Critical", 90))},
    replies |-> {None},
    autos |-> {FALSE},
    audio |-> {"ok"},
    geo |-> {"denied"},
    texts |-> {<<"h", "i">>},
    ops |-> MaxSnapOps, clock |-> MaxClock ]

InitSnap == InitOf("static", "s1") /\ feed = NoFeed

NextSnap == NextIn(SnapEnv)

SpecSnap == InitSnap /\ [][NextSnap]_vars

\* Chat turns: both variants, texts that are empty, blank or a message with
\* spaces around it, a two-character reply revealed tick by tick.
ChatEnv ==
  [ sids |-> {"s1"},
    vitals |-> {v \in VitalsSet : v.pulse_bpm > PulseHighAbove},
    risks |-> {None},
    chatVitals |-> {None},
    chatRisks |-> {None},
    replies |-> {Some(<<"o", "k">>)},
    autos |-> {FALSE},
    audio |-> {"ok"},
    geo |-> {"denied"},
    texts |-> {<<>>, <<" ">>, <<" ", "h", "i", " ">>},
    ops |-> MaxChatOps, clock |-> MaxClock ]

InitChat == \E v \in Variants : InitOf(v, "s1") /\ feed = NoFeed

NextChat == NextIn(ChatEnv)

SpecChat == InitChat /\ [][NextChat]_vars

\* The fetch of a chat turn settles and the timer of typewriterInto keeps
\* firing until it is cleared.
ChatSettles == \E t \in tasks : ChatFail(t) \/ \E d \in
                 [session_id : ChatEnv.sids, reply : ChatEnv.replies, vitals : ChatEnv.chatVitals,
                  risk : ChatEnv.chatRisks, auto : ChatEnv.autos] : ChatOk(t, d, "ok")

TypeTicks == \E t \in tasks : TypeTick(t, "ok")

SpecChatFair == SpecChat /\ WF_vars(ChatSettles) /\ WF_vars(TypeTicks)

\* SOS: both variants, every geolocation outcome, a backend that answers
\* with or without a nearest hospital or fails.
SosEnv ==
  [ sids |-> {"s1"},
    vitals |-> {v \in VitalsSet : v.pulse_bpm > PulseHighAbove},
    risks |-> {None},
    chatVitals |-> {None},
    chatRisks |-> {None},
    replies |-> {None},
    autos |-> {FALSE},
    audio |-> {"ok"},
    geo |-> {"unsupported", "denied", "timeout", "ok"},
    texts |-> {<<"h", "i">>},
    ops |-> MaxSosOps, clock |-> MaxClock ]

InitSos == \E v \in Variants : InitOf(v, "s1") /\ feed = NoFeed

NextSos == NextIn(SosEnv)

SpecSos == InitSos /\ [][NextSos]_vars

\* The same with MaxSosLiveOps user and timer events, for the progress of
\* one sos() call beside the requests of boot.
SosLiveEnv == [SosEnv EXCEPT !.ops = MaxSosLiveOps]

NextSosLive == NextIn(SosLiveEnv)

SpecSosLive == InitSos /\ [][NextSosLive]_vars

\* getCurrentPosition calls one of its callbacks (its timeout is 6000 ms)
\* and the fetch of /api/sos settles.
SosResolves == \E t \in tasks, o \in SosEnv.geo : SosGeo(t, o)

SosSettles == \E t \in tasks : SosFail(t) \/ \E d \in [session_id : SosEnv.sids, hospital : BOOLEAN] :
                SosOk(t, d, "ok")

SpecSosFair == SpecSosLive /\ WF_vars(SosResolves) /\ WF_vars(SosSettles)

(***************************************************************************)
(* The rolling buffer alone: pushPulse is called MaxPushes times on the    *)
(* values of an input stream chosen at the start.                          *)
(***************************************************************************)
Feeds == [base : {60, 100}, stride : {1, 7}, dt : {PollMsStatic, PollMsBackend}]

\* the k-th value of the stream
FeedValue(k) == feed.base + ((k * feed.stride) % 50)

InitBuf == \E v \in Variants, f \in Feeds : InitOf(v, NoItem) /\ feed = f

\* pushPulse(value) on the next value of the stream, one interval later
BufPush ==
  /\ Len(pushed) < MaxPushes
  /\ LET p == FeedValue(Len(pushed) + 1)
         b == PushPulse(pulseSeries, pulseLabels, p, now, MaxPoints(variant))
     IN /\ pulseSeries' = b.series
        /\ pulseLabels' = b.labels
        /\ pushed' = Append(pushed, p)
  /\ now' = now + feed.dt
  /\ UNCHANGED <<variant, bootVars, sessVars, tasks, countVars, memo, pills, riskVars, audioVars,
                 toast, lastKnownLocation, chatVars, sosResult, hospitalList, lastApplied,
                 lastEvent, feed, anim>>

NextBuf == BufPush

SpecBuf == InitBuf /\ [][NextBuf]_vars

(***************************************************************************)
(* Risk styling: the "static" client, one snapshot, and risks with every   *)
(* level, an unrecognized one, an empty one and none.                      *)
(***************************************************************************)
EvalEnv ==
  [ sids |-> {"s1"},
    vitals |-> {v \in VitalsSet : v.pulse_bpm > PulseHighAbove},
    risks |-> {None, Some(Risk("Critical", 90)), Some(Risk("Severe", 99))},
    chatVitals |-> {None},
    chatRisks |-> {None, Some(Risk("", 0)), Some(Risk("Low", 10)), Some(Risk("Medium", 42))},
    replies |-> {None},
    autos |-> {FALSE},
    audio |-> {"ok"},
    geo |-> {"denied"},
    texts |-> {<<"h", "i">>},
    ops |-> MaxEvalOps, clock |-> MaxClock ]

InitEval == InitOf("static", "s1") /\ feed = NoFeed

NextEval == NextIn(EvalEnv)

SpecEval == InitEval /\ [][NextEval]_vars

(***************************************************************************)
(* Alert pills: both variants, snapshots on and just above the thresholds  *)
(* of applyAlerts, in vitals and in chat responses.                        *)
(***************************************************************************)
AlertVitals ==
  { [pulse_bpm |-> x.p, temperature_c |-> x.c, oxygen_percent |-> 97, air_quality_ppm |-> 40] :
      x \in { [p |-> PulseHighAbove + 1, c |-> FeverAbove],
              [p |-> PulseHighAbove, c |-> FeverAbove + 1] } }

AlertEnv ==
  [ sids |-> {"s1"},
    vitals |-> AlertVitals,
    risks |-> {None},
    chatVitals |-> {None} \cup {Some(v) : v \in {w \in AlertVitals : w.pulse_bpm > PulseHighAbove}},
    chatRisks |-> {None},
    replies |-> {None},
    autos |-> {FALSE},
    audio |-> {"ok"},
    geo |-> {"denied"},
    texts |-> {<<"h", "i">>},
    ops |-> MaxAlertOps, clock |-> MaxAlertClock ]

InitAlert == \E v \in Variants : InitOf(v, "s1") /\ feed = NoFeed

NextAlert == NextIn(AlertEnv)

SpecAlert == InitAlert /\ [][NextAlert]_vars

(***************************************************************************)
(* Audio failures: the "static" client with an audio subsystem that works, *)
(* cannot be created, or throws when driven; cues of every origin.         *)
(***************************************************************************)
AudioEnv ==
  [ sids |-> {"s1"},
    vitals |-> {v \in VitalsSet : v.pulse_bpm > PulseHighAbove},
    risks |-> {Some(Risk("Critical", 90))},
    chatVitals |-> {None},
    chatRisks |-> {None, Some(Risk("Medium", 42))},
    replies |-> {None},
    autos |-> BOOLEAN,
    audio |-> {"ok", "ctorThrows", "synthThrows"},
    geo |-> {"denied"},
    texts |-> {<<"h", "i">>},
    ops |-> MaxAudioOps, clock |-> MaxAudioClock ]

InitAudio == InitOf("static", "s1") /\ feed = NoFeed

NextAudio == NextIn(AudioEnv)

SpecAudio == InitAudio /\ [][NextAudio]_vars

(***************************************************************************)
(* The typewriter: the "static" client and replies that are missing,       *)
(* empty and three characters long, with and without vitals to apply.      *)
(***************************************************************************)
TypeEnv ==
  [ sids |-> {"s1"},
    vitals |-> {v \in VitalsSet : v.pulse_bpm > PulseHighAbove},
    risks |-> {None},
    chatVitals |-> {None} \cup {Some(v) : v \in {w \in VitalsSet : w.pulse_bpm <= PulseHighAbove}},
    chatRisks |-> {None},
    replies |-> {None, Some(<<>>), Some(<<"y", "e", "s">>)},
    autos |-> {FALSE},
    audio |-> {"ok"},
    geo |-> {"denied"},
    texts |-> {<<"h", "i">>},
    ops |-> MaxTypeOps, clock |-> MaxTypeClock ]

InitType == InitOf("static", "s1") /\ feed = NoFeed

NextType == NextIn(TypeEnv)

SpecType == InitType /\ [][NextType]_vars

\* the interval of typewriterInto keeps firing until it is cleared
SpecTypeFair == SpecType /\ WF_vars(TypeTicks)

(***************************************************************************)
(* animateNumber alone, on one field: up to MaxAnimCalls calls, animation  *)
(* frames at the steps of the clock.  A call is made only while the clock  *)
(* leaves its animation the time to finish.                                *)
(***************************************************************************)
\* the calls made: 37.5 shown without decimals, 120.4 with one
AnimCalls == {[nextValue |-> 375, decimals |-> 0], [nextValue |-> 1204, decimals |-> 1]}

AnimEnd == StartTime + (MaxAnimTicks * FrameStepMs)

\* animateNumber is the same text in both variants; one of them is explored
InitAnim == InitOf("static", NoItem) /\ feed = NoFeed

\* animateNumber(el, nextValue, decimals) up to requestAnimationFrame(frame)
AnimCall(nextValue, decimals) ==
  /\ nops < MaxAnimCalls
  /\ now + AnimDurationMs <= AnimEnd
  /\ LET current == IF memo.pulse = None THEN 0 ELSE memo.pulse[1]
     IN anim' = [anim EXCEPT
                   !.frames = Append(@, [current |-> current, target |-> nextValue,
                                         start |-> now, decimals |-> decimals, ran |-> -1]),
                   !.call = Some([current |-> current, target |-> nextValue,
                                  decimals |-> decimals,
                                  solo |-> anim.frames = <<>>])]
  /\ memo' = [memo EXCEPT !.pulse = AnimateNumber(nextValue)]
  /\ nops' = nops + 1
  /\ UNCHANGED <<variant, now, bootVars, sessVars, tasks, pills, pulseSeries, pulseLabels,
                 pushed, riskVars, audioVars, toast, lastKnownLocation, chatVars, sosResult,
                 hospitalList, lastApplied, lastEvent, feed>>

\* the browser runs the pending frame callbacks, once per animation frame;
\* framed tells that the frame of this clock value has run
AnimFrame ==
  /\ anim.frames # <<>>
  /\ ~anim.framed
  /\ LET r == RunFrames(anim.frames, anim.text, now)
     IN anim' = [anim EXCEPT !.text = r.text, !.frames = r.frames, !.framed = TRUE]
  /\ UNCHANGED <<variant, now, bootVars, sessVars, tasks, countVars, vitalVars, riskVars,
                 audioVars, toast, lastKnownLocation, chatVars, sosResult, hospitalList,
                 lastApplied, lastEvent, feed>>

\* the clock reaches the time of the next animation frame
AnimTime ==
  /\ now < AnimEnd
  /\ now' = now + FrameStepMs
  /\ anim' = [anim EXCEPT !.framed = FALSE]
  /\ UNCHANGED <<variant, bootVars, sessVars, tasks, countVars, vitalVars, riskVars,
                 audioVars, toast, lastKnownLocation, chatVars, sosResult, hospitalList,
                 lastApplied, lastEvent, feed>>

NextAnim ==
  \/ \E c \in AnimCalls : AnimCall(c.nextValue, c.decimals)
  \/ AnimFrame
  \/ AnimTime

SpecAnim == InitAnim /\ [][NextAnim]_vars

\* the page stays visible: animation frames keep coming and time passes
SpecAnimFair == SpecAnim /\ WF_vars(AnimFrame) /\ WF_vars(AnimTime)

(***************************************************************************)
(* Properties.                                                             *)
(***************************************************************************)
\* the last n elements of s, all of s when it has no more than n
LastOf(s, n) == IF Len(s) > n THEN SubSeq(s, Len(s) - n + 1, Len(s)) ELSE s

\* C1: after any sequence of pushPulse calls the buffer is no longer than its
\* capacity (60 or 30) and holds the most recently pushed values, at most
\* capacity many, in insertion order: the oldest are evicted first.
C1_BufferBounded ==
  /\ Len(pulseSeries) <= MaxPoints(variant)
  /\ pulseSeries = LastOf(pushed, MaxPoints(variant))

\* more than 60 values were pushed in "static" and the oldest is gone
C1_Witness ==
  /\ variant = "static"
  /\ Len(pushed) > MaxPointsStatic
  /\ Len(pulseSeries) = MaxPointsStatic
  /\ pulseSeries[1] # pushed[1]

\* the requests to /api/vitals, /api/ask_ai and /api/sos that were sent
Sent == {t \in tasks : t.kind \in {"vitals", "chat", "sos"} /\ t.stage = "fetch"}

\* C2: once a non-empty session identifier is known (loaded from storage or
\* received in a response), every later request to the vitals, chat and SOS
\* endpoints carries it, in both variants, and an identifier that is sent
\* was loaded or received before.
C2_RequestsCarryId ==
  \A t \in Sent :
    /\ t.known # "" => t.sid = t.known
    /\ t.sid # NoSid => t.sid \in issued

\* C3: the session identifier is never cleared: once sessionId and the stored
\* value are identifiers, no response makes them empty or undefined; they
\* change only to an identifier the backend issued.
C3_NeverCleared ==
  [][ /\ sessionId \in Ids => sessionId' \in issued'
      /\ stored \in Ids => stored' \in issued' ]_vars

\* a cue request that passed the throttle: its synthesis was attempted
Passing(c) == c.outcome # "suppressed"

\* C4: any two cue requests that pass the throttle, whatever their origin
\* and whether their synthesis succeeds or throws, are at least 1200 ms
\* apart, and so are any two played cues; a request is suppressed exactly
\* when one that passed is less than 1200 ms before it, so a suppressed
\* request does not restart the window, and lastBeepAt is the time of the
\* last request that passed.
C4_CueSpacing ==
  /\ \A i, j \in DOMAIN cues :
        (i < j /\ Passing(cues[i]) /\ Passing(cues[j])) => cues[j].at - cues[i].at >= BeepGapMs
  /\ \A k \in DOMAIN cues :
        cues[k].outcome = "suppressed" <=>
          \E j \in 1..(k - 1) : Passing(cues[j]) /\ cues[k].at - cues[j].at < BeepGapMs
  /\ \A k \in DOMAIN cues :
        (\A j \in (k + 1)..Len(cues) : ~Passing(cues[j])) /\ Passing(cues[k])
          => lastBeepAt = cues[k].at

\* a synthesis failed, a request less than 1200 ms later was suppressed and
\* one at least 1200 ms after the failure was played
C4_Witness ==
  \E i, j, k \in DOMAIN cues :
    /\ i < j /\ j < k
    /\ cues[i].outcome = "failed"
    /\ cues[j].outcome = "suppressed"
    /\ cues[k].outcome = "played"
    /\ cues[k].at - cues[i].at >= BeepGapMs

\* C4 as stated: played cues are at least 1200 ms apart, and a request is
\* silenced by the throttle only when a cue was played less than 1200 ms
\* before it.
C4_PlayedWindow ==
  /\ \A i, j \in DOMAIN cues :
        (i < j /\ cues[i].outcome = "played" /\ cues[j].outcome = "played")
          => cues[j].at - cues[i].at >= BeepGapMs
  /\ \A k \in DOMAIN cues :
        cues[k].outcome = "suppressed" =>
          \E j \in 1..(k - 1) :
            cues[j].outcome = "played" /\ cues[k].at - cues[j].at < BeepGapMs

\* the cue requests of setRiskUI
IsRiskCue(c) == c.origin = "risk"

RiskCues(c) == SelectSeq(c, IsRiskCue)

\* the cue kind of a level
KindOf(level) == IF level = "Critical" THEN "critical" ELSE "medium"

\* C5: every evaluation whose level is Medium or Critical and differs from
\* the level observed before requests exactly one cue, of the level's kind;
\* the request is suppressed exactly when less than 1200 ms passed since the
\* last request that passed the throttle, and is otherwise played unless the
\* synthesis throws; an evaluation that repeats the level requests none.
C5_TransitionCue ==
  [][ LET new == RiskCues(SubSeq(cues', Len(cues) + 1, Len(cues'))) IN
      /\ (lastRiskLevel' # lastRiskLevel /\ lastRiskLevel' \in {"Medium", "Critical"}) =>
            /\ Len(new) = 1
            /\ new[1].kind = KindOf(lastRiskLevel')
            /\ new[1].at = now
            /\ new[1].outcome = "suppressed" <=> now - lastBeepAt < BeepGapMs
      /\ lastRiskLevel' = lastRiskLevel => new = <<>> ]_vars

\* Critical was entered with a played cue and Medium entered less than 1200 ms
\* later: its cue was requested and suppressed
C5_Witness ==
  /\ lastRiskLevel = "Medium"
  /\ \E j, k \in DOMAIN cues :
       /\ j < k
       /\ IsRiskCue(cues[j]) /\ cues[j].kind = "critical" /\ cues[j].outcome = "played"
       /\ IsRiskCue(cues[k]) /\ cues[k].kind = "medium" /\ cues[k].outcome = "suppressed"

\* C5 as stated: every transition into Medium or Critical from a different
\* level observed before gets a cue through the throttle, for every timing
\* of the evaluations.
C5_EveryTransitionAudible ==
  [][ (lastRiskLevel # "" /\ lastRiskLevel' # lastRiskLevel
         /\ lastRiskLevel' \in {"Medium", "Critical"}) =>
        \E k \in (Len(cues) + 1)..Len(cues') :
          IsRiskCue(cues'[k]) /\ Passing(cues'[k]) ]_vars

\* C6: evaluating the same (vitals, risk) pair twice in a row leaves the
\* pills, the risk styling and the root classes as the first evaluation set
\* them and the second evaluation requests no cue; setRiskUI requests a cue
\* only when the level is non-empty and differs from lastRiskLevel.
C6_Idempotent ==
  [][ LET new == RiskCues(SubSeq(cues', Len(cues) + 1, Len(cues'))) IN
      /\ ( /\ lastApplied # None /\ lastApplied' # None
           /\ lastApplied'[1].n = lastApplied[1].n + 1
           /\ lastApplied'[1].vitals = lastApplied[1].vitals
           /\ lastApplied'[1].risk = lastApplied[1].risk ) =>
            /\ pills' = pills
            /\ riskUI' = riskUI
            /\ appClasses' = appClasses
            /\ lastRiskLevel' = lastRiskLevel
            /\ new = <<>>
      /\ new # <<>> =>
            /\ lastRiskLevel' \in {"Medium", "Critical"}
            /\ lastRiskLevel' # lastRiskLevel
            /\ lastApplied' # None /\ LevelOf(lastApplied'[1].risk) = lastRiskLevel' ]_vars

\* a poll evaluated the pair of the response before it, a transition into
\* Critical that got its one cue
C6_Witness ==
  /\ lastApplied # None
  /\ lastApplied[1].repeat
  /\ lastApplied[1].vitals # None
  /\ LevelOf(lastApplied[1].risk) = "Critical"
  /\ Len(RiskCues(cues)) = 1

\* the handlers that ran on a failure
FailureEvents == {"hospitalsFail", "bootVitalsFail", "pollFail", "chatFail", "sosFail", "sosThrow"}

\* C7: no failure is fatal: after a failure of the hospital-list load, the
\* boot-time vitals fetch, an interval poll, a chat request or an SOS request,
\* once boot() has settled (nothing starts the loop or installs the listeners
\* later) the poll loop runs and the submit and SOS listeners are installed.
C7_NoFailureFatal ==
  (lastEvent.op \in FailureEvents /\ bootPc \in {"done", "failed"}) =>
    (intervalOn /\ handlersOn)

\* C8: a failed interval poll leaves the toast, the session identifier, the
\* memoized fields, the pills, the risk state, lastRiskLevel and the buffer
\* unchanged and the interval armed as it was, so that the next tick polls;
\* a failed boot-time vitals fetch sets a notice.
C8_FailedPoll ==
  [][ /\ lastEvent'.op = "pollFail" =>
           /\ UNCHANGED <<toast, sessionId, stored, memo, pills, riskUI, appClasses,
                          lastRiskLevel, pulseSeries, pulseLabels, nextTickAt>>
           /\ intervalOn /\ intervalOn'
      /\ lastEvent'.op = "bootVitalsFail" => toast' # "" ]_vars

\* an interval poll failed after a snapshot and a notice were shown, and the
\* loop is armed
C8_Witness ==
  /\ lastEvent.op = "pollFail"
  /\ pushed # <<>>
  /\ toast # ""
  /\ intervalOn /\ nextTickAt > now

\* the responses still to be applied: vitals fetches and chat turns in flight
Unapplied == {t \in tasks : t.kind \in {"vitals", "chat"}}

\* C9: overlapping polls and chat turns leave a consistent state: once every
\* response was applied, the memoized fields, the pills and the risk styling
\* are those of the response applied last, as a whole-snapshot replace, and
\* the buffer gained one point per applied vitals snapshot, in apply order,
\* within its capacity.
C9_LastAppliedWins ==
  (Unapplied = {} /\ lastApplied # None) =>
    LET r == lastApplied[1] IN
    /\ r.vitals # None
    /\ memo = AnimateAll(r.vitals[1])
    /\ pills = ApplyAlerts(r.vitals[1], variant)
    /\ riskUI = RiskStyle(r.risk)
    /\ Len(pushed) = r.nv
    /\ pulseSeries = LastOf(pushed, MaxPoints(variant))

\* C10: in every state between handler runs the four memoized fields, the
\* pills, the newest buffer point and the risk styling derive from one
\* response, the one applied last, a poll's or a chat turn's.
C10_NoMixedSnapshot ==
  lastApplied # None =>
    LET r == lastApplied[1] IN
    /\ r.vitals # None
    /\ memo = AnimateAll(r.vitals[1])
    /\ pills = ApplyAlerts(r.vitals[1], variant)
    /\ pulseSeries # <<>>
    /\ pulseSeries[Len(pulseSeries)] = r.vitals[1].pulse_bpm
    /\ riskUI = RiskStyle(r.risk)

\* the chat turns under way: a request in flight or a reply being revealed
ChatTurns == {t \in tasks : t.kind = "chat"}

\* the typing indicators in the transcript
TypingShown == {k \in DOMAIN transcript : transcript[k].cls = "msg bot typing"}

\* C11: in "static" at most one chat turn exists at any time, and while one
\* exists the send button and the input are disabled, so that no second
\* sendChat starts before the finally block of the first has run.
C11_OneChatTurn ==
  variant = "static" =>
    /\ Cardinality(ChatTurns) <= 1
    /\ Cardinality(TypingShown) <= 1
    /\ ChatTurns # {} => (chatUI.sendDisabled /\ chatUI.inputDisabled)

\* a reply is half revealed while the user has a submission left
C11_Witness ==
  /\ variant = "static"
  /\ nops < MaxChatOps
  /\ \E t \in ChatTurns : t.stage = "typing" /\ t.i = 1

\* C12: in "static" every chat turn that was started ends, on success and
\* on failure, and whenever no turn is under way the send button and the
\* input are enabled, the busy indicator is hidden and no typing indicator
\* is in the transcript; right after a failure the notice is shown.
C12_ChatTurnEnds ==
  /\ (variant = "static" /\ ChatTurns # {}) ~> (ChatTurns = {})
  /\ [](variant = "static" /\ ChatTurns = {} => chatUI = ChatEnabledUI /\ TypingShown = {})
  /\ [](lastEvent.op = "chatFail" => toast = "Assistant error")

\* a chat request has just failed: the notice is up and the controls are back
C12_Witness ==
  /\ variant = "static"
  /\ lastEvent.op = "chatFail"
  /\ toast = "Assistant error"
  /\ chatUI = ChatEnabledUI
  /\ TypingShown = {}
  /\ \E k \in DOMAIN transcript : transcript[k].cls = "msg user"

\* C13: sendChat with an empty or whitespace-only text sends no request,
\* adds no message and leaves the controls, the toast, the session
\* identifier and the vitals and risk state unchanged, in both variants.
C13_BlankIgnored ==
  [][ lastEvent'.op = "sendChatBlank" =>
        UNCHANGED <<tasks, transcript, chatUI, toast, sessionId, stored, memo, pills, riskUI,
                    appClasses, lastRiskLevel, pulseSeries, pulseLabels>> ]_vars

\* a blank text was submitted while a notice was shown
C13_Witness ==
  /\ lastEvent.op = "sendChatBlank"
  /\ toast # ""
  /\ pushed # <<>>

\* the sos() calls under way
SosTurns == {t \in tasks : t.kind = "sos"}

\* the position getGeo() resolves to for what the device did
ExpectedPos(outcome) == IF outcome = "ok" THEN DevicePos ELSE Center

\* the tasks of kind k that a step created or moved on
Moved(k) == {t \in tasks' \ tasks : t.kind = k}

\* the requests of kind k that a step completed
Completed(k) == {t \in tasks : t.kind = k /\ t.stage = "fetch" /\ \A u \in tasks' : u.rid # t.rid}

\* C14: every sos() call ends, in both variants: whatever the device does,
\* the position resolves and is posted, the fixed fallback coordinate unless
\* the device reported one; a backend failure and a response without
\* nearest_hospital end in the catch block with the notice "SOS failed", and
\* a response with a hospital renders the result.
C14_SosCompletes ==
  /\ (SosTurns # {}) ~> (SosTurns = {})
  /\ [][ /\ lastEvent'.op = "geo" =>
               \A t \in Moved("sos") : t.stage = "fetch" /\ t.loc = ExpectedPos(lastEvent'.outcome)
         /\ Completed("sos") # {} =>
               IF lastEvent'.op \in {"sosFail", "sosThrow"}
               THEN toast' = "SOS failed"
               ELSE /\ toast' = "Nearest hospital"
                    /\ variant = "static" => sosResult' = "SOS" ]_vars

\* a response without nearest_hospital was caught after the device denied
\* its position
C14_Witness ==
  /\ lastEvent.op = "sosThrow"
  /\ toast = "SOS failed"
  /\ SosTurns = {}
  /\ lastKnownLocation = Center

\* the origin of the cue a step forces: a successful SOS response or the end
\* of a chat turn whose response announced an auto emergency
ForcedOrigins ==
  {"sos" : t \in {u \in Completed("sos") : lastEvent'.op \notin {"sosFail", "sosThrow"}}}
  \cup {"auto" : t \in {u \in tasks : /\ u.kind = "chat" /\ u.stage = "typing"
                                       /\ u.data[1].auto
                                       /\ \A w \in tasks' : w.rid # u.rid}}

\* C15: every successful SOS response and every chat response with an auto
\* emergency requests a critical cue as the last thing it does, whatever
\* lastRiskLevel is; the request passes the throttle exactly when no request
\* passed it less than 1200 ms earlier, the cue of the same response's risk
\* payload included, and is then played unless the synthesis throws.
C15_ForcedCue ==
  [][ \A o \in ForcedOrigins :
        LET k == Len(cues') IN
        /\ k > Len(cues)
        /\ cues'[k].kind = "critical" /\ cues'[k].origin = o /\ cues'[k].at = now
        /\ Passing(cues'[k]) <=>
             ~\E j \in 1..(k - 1) : Passing(cues'[j]) /\ cues'[k].at - cues'[j].at < BeepGapMs ]_vars

\* the risk payload of a chat response got its Medium cue and the auto
\* emergency of the same response was requested and suppressed, and another
\* forced cue was played while the level was Critical
C15_Witness ==
  /\ \E k \in DOMAIN cues :
       /\ k > 1
       /\ cues[k].origin = "auto" /\ cues[k].outcome = "suppressed"
       /\ cues[k - 1].origin = "risk" /\ cues[k - 1].at = cues[k].at
  /\ \E k \in DOMAIN cues : cues[k].origin \in {"sos", "auto"} /\ cues[k].outcome = "played"

\* C15 as stated: every successful SOS response and every chat response with
\* an auto emergency gets a critical cue through the throttle.
C15_AlwaysAudible ==
  [][ ForcedOrigins # {} =>
        \E k \in (Len(cues) + 1)..Len(cues') :
          cues'[k].kind = "critical" /\ Passing(cues'[k]) ]_vars

\* C16: in "static" lastKnownLocation is the position getGeo() resolved last,
\* in boot or in sos(), the fixed fallback coordinate before that; nothing
\* else changes it, the outcome of the SOS request included, and every chat
\* request carries it.
C16_LocationRemembered ==
  /\ [](variant = "static" /\ bootPc \in {"hospitals", "geo"} => lastKnownLocation = Center)
  /\ [][ variant = "static" =>
           /\ lastEvent'.op = "geo" => lastKnownLocation' = ExpectedPos(lastEvent'.outcome)
           /\ lastEvent'.op # "geo" => lastKnownLocation' = lastKnownLocation
           /\ \A t \in Moved("chat") : t.stage = "fetch" => t.loc = lastKnownLocation ]_vars

\* a chat request sent with the fallback coordinate is in flight, sos() then
\* resolved the device's position and its request failed: the position stays
C16_Witness ==
  /\ variant = "static"
  /\ lastEvent.op = "sosFail"
  /\ lastKnownLocation = DevicePos
  /\ \E t \in ChatTurns : t.stage = "fetch" /\ t.loc = Center

\* the text of a value in tenths formatted to d decimals
Formatted(tenths, d) == [d |-> d, n |-> IF d = 1 THEN tenths ELSE (tenths + 5) \div 10]

\* C17: an animateNumber call made while no animation of the field is pending
\* and left alone ends: its frames stop, the field then shows the target
\* formatted to the requested decimals whatever value it started from, and no
\* frame is registered again by a callback that ran with t = 1.
C17_AnimationCompletes ==
  /\ [](anim.frames = <<>> /\ anim.call # None /\ anim.call[1].solo
          => anim.text = Formatted(anim.call[1].target, anim.call[1].decimals))
  /\ [](\A k \in DOMAIN anim.frames : anim.frames[k].ran < EaseSteps)
  /\ (anim.frames # <<>>) ~> (anim.frames = <<>>)

\* a second call, started from the first one's target after its animation
\* had finished, has run to completion and the field shows its target
C17_Witness ==
  /\ anim.frames = <<>>
  /\ anim.call # None
  /\ anim.call[1].solo
  /\ anim.call[1].current # 0
  /\ anim.call[1].current # anim.call[1].target
  /\ anim.call[1].decimals = 0
  /\ anim.text = Formatted(anim.call[1].target, 0)

\* the risk classes of the app root
RootRisk == appClasses \cap RiskClasses

\* the classes a level stands for
LevelClasses(level) ==
  IF level = "Critical" THEN {"risk-critical", "critical"}
  ELSE IF level = "Medium" THEN {"risk-medium"}
  ELSE IF level = "Low" THEN {"risk-low"}
  ELSE {}

\* a step in which "static" called setRiskUI: a vitals response was applied,
\* or a chat response that carries a risk
RiskEvaluated ==
  /\ variant = "static"
  /\ lastApplied' # lastApplied
  /\ Completed("vitals") # {} \/ lastApplied'[1].risk # None

\* C18: the app root never carries two of risk-low, risk-medium and
\* risk-critical, and critical exactly with risk-critical; a setRiskUI call
\* leaves the classes of the evaluated level, none for an absent, empty or
\* unrecognized level, and no other step changes them.
C18_RiskClasses ==
  /\ [](/\ Cardinality(appClasses \cap {"risk-low", "risk-medium", "risk-critical"}) <= 1
        /\ "critical" \in appClasses <=> "risk-critical" \in appClasses)
  /\ [][ IF RiskEvaluated
         THEN RootRisk' = LevelClasses(LevelOf(lastApplied'[1].risk))
         ELSE RootRisk' = RootRisk ]_vars

\* the root was styled Critical and a response with an unrecognized level
\* has cleared it
C18_Witness ==
  /\ variant = "static"
  /\ lastApplied # None
  /\ lastApplied[1].risk = Some(Risk("Severe", 99))
  /\ lastRiskLevel = "Severe"
  /\ \E k \in DOMAIN cues : cues[k].kind = "critical"
  /\ RootRisk = {}

\* the pills of a snapshot, by the thresholds
PillsOf(v) ==
  [ pulseAlert |-> IF v.pulse_bpm >= 111 THEN "pill pill-warn" ELSE "pill pill-ok",
    tempAlert |-> IF v.temperature_c >= 39 THEN "pill pill-danger" ELSE "pill pill-ok" ]

\* C19: in both variants the pills are a function of the snapshot applied
\* last and of nothing else: the pulse pill is warn ("High", "Warning" in
\* "backend") exactly above 110 and the temperature pill is danger ("Fever")
\* exactly above 38, "Normal" and ok otherwise; a step that applies no
\* snapshot leaves them.
C19_AlertsThreshold ==
  [][ IF lastApplied' # lastApplied /\ lastApplied'[1].vitals # None
      THEN LET v == lastApplied'[1].vitals[1] IN
           /\ pills'.pulseAlert.cls = PillsOf(v).pulseAlert
           /\ pills'.tempAlert.cls = PillsOf(v).tempAlert
           /\ pills'.pulseAlert.text = "Normal" <=> v.pulse_bpm <= 110
           /\ pills'.pulseAlert.text = (IF variant = "static" THEN "High" ELSE "Warning")
                <=> v.pulse_bpm > 110
           /\ pills'.tempAlert.text = "Normal" <=> v.temperature_c <= 38
           /\ pills'.tempAlert.text = "Fever" <=> v.temperature_c > 38
      ELSE pills' = pills ]_vars

\* a snapshot on the pulse threshold and above the temperature threshold was
\* applied after one the other way round: each pill has changed sides
C19_Witness ==
  /\ Len(pushed) >= 2
  /\ pushed[Len(pushed) - 1] = 111
  /\ pushed[Len(pushed)] = 110
  /\ memo.pulse = Some(110) /\ memo.temp = Some(39)
  /\ pills.pulseAlert = [text |-> "Normal", cls |-> "pill pill-ok"]
  /\ pills.tempAlert = [text |-> "Fever", cls |-> "pill pill-danger"]

\* the statements of a complete apply, in order
FullApply ==
  <<"animate pulse", "animate temp", "animate oxygen", "animate air",
    "applyAlerts", "pushPulse", "setRiskUI">>

\* what the page shows of the vitals and the risk
VitalsShown == <<memo, pills, pulseSeries, pulseLabels, pushed>>

RiskShown == <<riskUI, appClasses>>

\* C20: in "static" one apply is one uninterrupted run of the handler. The
\* step that applies a response runs the statements in the fixed order
\* numeric fields, alert pills, buffer push, risk styling (a chat response
\* without vitals or without risk skips that part), all four fields, the
\* pills, the buffer and the risk styling show that response when the step
\* ends, and no other step changes any of them: there is no state in which
\* an apply is half done.
C20_ApplyAtomic ==
  [][ variant = "static" =>
      IF lastApplied' # lastApplied
      THEN LET a == lastApplied'[1]
               Ran(x) == IF x = "setRiskUI"
                         THEN Completed("vitals") # {} \/ a.risk # None
                         ELSE a.vitals # None
           IN /\ a.n = Applies + 1
              /\ a.steps = SelectSeq(FullApply, Ran)
              /\ IF a.vitals # None
                 THEN /\ memo' = [ pulse |-> Some(a.vitals[1].pulse_bpm),
                                   temp |-> Some(a.vitals[1].temperature_c),
                                   oxygen |-> Some(a.vitals[1].oxygen_percent),
                                   air |-> Some(a.vitals[1].air_quality_ppm) ]
                      /\ pills'.pulseAlert.cls = PillsOf(a.vitals[1]).pulseAlert
                      /\ pills'.tempAlert.cls = PillsOf(a.vitals[1]).tempAlert
                      /\ pushed' = Append(pushed, a.vitals[1].pulse_bpm)
                      /\ pulseSeries' = LastOf(pushed', MaxPoints(variant))
                 ELSE VitalsShown' = VitalsShown
              /\ IF Ran("setRiskUI")
                 THEN /\ riskUI'.text = (IF LevelOf(a.risk) = "" THEN "--" ELSE LevelOf(a.risk))
                      /\ RootRisk' = LevelClasses(LevelOf(a.risk))
                 ELSE RiskShown' = RiskShown
      ELSE VitalsShown' = VitalsShown /\ RiskShown' = RiskShown ]_vars

\* a poll response was applied whole while a chat turn was under way, and
\* the chat response, which carries vitals only, was applied after it
C20_Witness ==
  /\ variant = "static"
  /\ lastApplied # None
  /\ lastApplied[1].n >= 2
  /\ lastApplied[1].steps = SubSeq(FullApply, 1, 6)
  /\ riskUI.text = "Critical"
  /\ memo.pulse = Some(80)
  /\ pills.tempAlert.cls = "pill pill-danger"

\* C21: animateNumber calls on one field that overlap. The memoized value is
\* always the target of the call made last; each call starts its animation
\* from the target of the call before it (0 for the first), whatever the
\* field shows at that moment; and once no frame is pending the field shows
\* the target of the call made last, formatted to that call's decimals.
C21_OverlapRebases ==
  /\ [](anim.call # None => memo.pulse = Some(anim.call[1].target))
  /\ [][ nops' = nops + 1 =>
           /\ Len(anim'.frames) = Len(anim.frames) + 1
           /\ anim'.frames[Len(anim'.frames)].current =
                (IF anim.call = None THEN 0 ELSE anim.call[1].target)
           /\ anim'.frames[Len(anim'.frames)].target = anim'.call[1].target ]_vars
  /\ [](anim.frames = <<>> /\ anim.call # None
          => anim.text = Formatted(anim.call[1].target, anim.call[1].decimals))

\* a call was made while the animation of an earlier call to another target
\* was under way, all frames have run, and the field shows the later target
C21_Witness ==
  /\ anim.frames = <<>>
  /\ anim.call # None
  /\ ~anim.call[1].solo
  /\ anim.call[1].current # anim.call[1].target
  /\ anim.text = Formatted(anim.call[1].target, anim.call[1].decimals)

\* C22: lastRiskLevel is empty until a level was evaluated, and every
\* setRiskUI call with a non-empty level leaves it equal to that level,
\* whether the cue of the change played, failed or was suppressed by the
\* throttle; a call with an absent level and every other step leave it.
C22_LastLevelTracks ==
  /\ [](lastApplied = None => lastRiskLevel = "")
  /\ [][ IF RiskEvaluated /\ LevelOf(lastApplied'[1].risk) # ""
         THEN lastRiskLevel' = LevelOf(lastApplied'[1].risk)
         ELSE lastRiskLevel' = lastRiskLevel ]_vars

\* the level went to Critical inside the throttle window of an earlier cue:
\* the cue of the change was suppressed and the level is remembered
C22_Witness ==
  /\ lastRiskLevel = "Critical"
  /\ cues # <<>>
  /\ cues[Len(cues)] = Cue(now, "critical", "risk", "suppressed")
  /\ lastApplied # None /\ LevelOf(lastApplied[1].risk) = "Critical"

\* the cues a step requested whose synthesis threw
FailedCues == {k \in (Len(cues) + 1)..Len(cues') : cues'[k].outcome = "failed"}

\* C23: a step in which the synthesis of a cue throws ends as the handler
\* ends when the cue plays. The throttle window starts; setRiskUI has styled
\* the page for the level and remembers it; the vitals handler has finished
\* (boot goes on), the chat turn has applied its response and enabled the
\* controls, sos() has rendered its result and shown "Nearest hospital"; no
\* handler ends in its failure path.
C23_AudioFailureSwallowed ==
  [][ \A k \in FailedCues :
        /\ lastBeepAt' = now
        /\ lastEvent'.op \notin {"pollFail", "bootVitalsFail", "chatFail", "sosFail", "sosThrow"}
        /\ Cardinality(tasks') < Cardinality(tasks)
        /\ cues'[k].origin = "risk" =>
             /\ RiskEvaluated
             /\ KindOf(LevelOf(lastApplied'[1].risk)) = cues'[k].kind
             /\ lastRiskLevel' = LevelOf(lastApplied'[1].risk)
             /\ riskUI'.text = LevelOf(lastApplied'[1].risk)
             /\ RootRisk' = LevelClasses(LevelOf(lastApplied'[1].risk))
        /\ Completed("vitals") # {} =>
             /\ toast' = toast
             /\ bootPc' = "done" /\ intervalOn' /\ handlersOn'
        /\ ChatTurns # ChatTurns' =>
             /\ ChatTurns' = {}
             /\ chatUI' = ChatEnabledUI
             /\ TypingShown = {}
             /\ toast' = toast
             /\ cues'[k].origin = "auto" => sosResult' = "AUTO EMERGENCY"
        /\ cues'[k].origin = "sos" =>
             /\ Completed("sos") # {}
             /\ sosResult' = "SOS"
             /\ toast' = "Nearest hospital" ]_vars

\* the AudioContext could not be created for the cue of the first Critical
\* level: the page is styled Critical, the level remembered, boot went on
C23_Witness ==
  /\ cues # <<>>
  /\ cues[1] = Cue(cues[1].at, "critical", "risk", "failed")
  /\ ~audioCtx
  /\ lastRiskLevel = "Critical"
  /\ "risk-critical" \in appClasses
  /\ bootPc = "done"
  /\ \E k \in DOMAIN cues : cues[k].origin = "sos" /\ cues[k].outcome = "failed"

\* the number of pushes whose entries were evicted
Evicted == Len(pushed) - Len(pulseSeries)

\* C24: in both variants the two arrays have the same length, and entry i of
\* each belongs to the same push, the i-th of those not evicted: the value
\* is the value pushed then and the label is the time of that push.
C24_LabelsAligned ==
  /\ Len(pulseLabels) = Len(pulseSeries)
  /\ Evicted >= 0
  /\ \A i \in DOMAIN pulseSeries :
       /\ pulseSeries[i] = pushed[Evicted + i]
       /\ pulseLabels[i] = Label(StartTime + ((Evicted + i - 1) * feed.dt))

\* the buffer is full, the first pushes were evicted from both arrays, and
\* the labels have passed a full minute
C24_Witness ==
  /\ Evicted >= 2
  /\ Len(pulseLabels) = MaxPoints(variant)
  /\ pulseLabels[1] = Label(StartTime + (Evicted * feed.dt))
  /\ pulseLabels[1] # Label(StartTime)
  /\ pulseLabels[Len(pulseLabels)] = Label(now - feed.dt)
  /\ pulseLabels[Len(pulseLabels)][5] # pulseLabels[1][5]

\* the chat turns whose reply is being revealed
Typing == {t \in ChatTurns : t.stage = "typing"}

\* the reply of a turn, as typewriterInto sees it
ReplyOf(t) == IF t.data[1].reply = None THEN <<>> ELSE t.data[1].reply[1]

\* the ticks typewriterInto takes for a text
TicksFor(src) == IF Len(src) = 0 THEN 1 ELSE Len(src)

\* the text of the reply element of turn t in the transcript msgs
ShownOf(msgs, t) == {msgs[k].text : k \in {j \in DOMAIN msgs : transcript[j].of = t.rid
                                                       /\ transcript[j].cls = "msg bot"}}

\* C25: in "static" typewriterInto ends for every reply, a missing and an
\* empty one included. The reply element starts empty and after tick i
\* shows the first i characters; the tick that completes the text, the
\* first one for an empty text, is the last and ends the turn in the same
\* run: only then are the vitals of the response applied and the controls
\* enabled. While the text is revealed the controls stay disabled.
C25_TypewriterEnds ==
  /\ (Typing # {}) ~> (Typing = {})
  /\ [](\A t \in Typing :
          /\ t.i < TicksFor(ReplyOf(t))
          /\ ShownOf(transcript, t) = {SubSeq(ReplyOf(t), 1, t.i)}
          /\ chatUI = ChatBusyUI)
  /\ [][ /\ \A t \in Typing \ tasks' :
              IF \E u \in tasks' : u.rid = t.rid
              THEN /\ \E u \in Typing' : u.rid = t.rid /\ u.i = t.i + 1
                   /\ ShownOf(transcript', t) = {SubSeq(ReplyOf(t), 1, t.i + 1)}
                   /\ lastApplied' = lastApplied
                   /\ chatUI' = chatUI
              ELSE /\ t.i + 1 = TicksFor(ReplyOf(t))
                   /\ ShownOf(transcript', t) = {ReplyOf(t)}
                   /\ chatUI' = ChatEnabledUI
                   /\ t.data[1].vitals # None =>
                        lastApplied' # lastApplied /\ lastApplied'[1].vitals = t.data[1].vitals
         /\ lastApplied' # lastApplied /\ Completed("vitals") = {} =>
              \E t \in Typing : \A u \in tasks' : u.rid # t.rid ]_vars

\* the three characters of a reply were revealed and the vitals of its
\* response applied when the last one appeared
C25_Witness ==
  /\ Typing = {}
  /\ \E k \in DOMAIN transcript :
       transcript[k].cls = "msg bot" /\ transcript[k].text = <<"y", "e", "s">>
  /\ lastApplied # None
  /\ memo.pulse = Some(80)
  /\ chatUI = ChatEnabledUI

\* the identifier the stored item stands for: localStorage.getItem(sessionKey) || ""
StoredId == IF stored = NoItem THEN "" ELSE stored

\* C26: in "static", between handler runs the stored value is the in-memory
\* sessionId, an absent item counting as the empty identifier, after any
\* interleaving of poll, chat and SOS responses.
C26_StoreMatchesMemory == variant = "static" => StoredId = sessionId

====
